---- MODULE Spec2Model ----
(***************************************************************************)
(* The three-node question-answering agent of agent.py (retrieve ->        *)
(* generate -> format), the retriever tool of utils.py that it calls, and  *)
(* the two ways test_client.py calls it through the routes of server.py    *)
(* (invoke and stream).                                                    *)
(*                                                                         *)
(* Text is a sequence of characters.  A character is a one-token string:   *)
(* "LF" is the newline, "BOX_H" the box-drawing bar of the banner, and so  *)
(* on for the other non-ASCII characters of the output template.           *)
(***************************************************************************)
EXTENDS Integers, Sequences, FiniteSets, TLC

VARIABLES
    retriever_tool,  \* agent.py:171, the module global read by retriever_node
    created,         \* the retriever instances create_agent was called with
    agent,           \* per invocation: the retriever its agent was created with
    mode,            \* per invocation: "invoke" or "stream"
    pc,              \* per invocation: the node to run next, "END" or "error"
    state,           \* per invocation: the GraphState (a partial dict)
    error,           \* per invocation: the exception that reached the caller
    calls,           \* per invocation: the requests sent to Provider and Index
    console,         \* per invocation: the "Node k" lines the nodes printed
    emitted,         \* per invocation: chunks the stream route has emitted
    result,          \* per invocation: what agent.invoke returned
    received,        \* per invocation: chunks the streaming client has read
    client,          \* per invocation: position of the client's loop
    printed,         \* per invocation: what the client printed
    server           \* server.py: how far the service process has come

vars == <<retriever_tool, created, agent, mode, pc, state, error, calls,
          console, emitted, result, received, client, printed, server>>

None == "None"

(* no state: the dict of a call that has not returned one *)
NoState == <<>>

Invocations == {"i1", "i2"}

----------------------------------------------------------------------------
(* Text helpers *)

RECURSIVE Rep(_, _)
Rep(c, n) == IF n = 0 THEN <<>> ELSE <<c>> \o Rep(c, n - 1)

Min(a, b) == IF a < b THEN a ELSE b

(* str.join: the items with sep between consecutive items, "" for no item *)
RECURSIVE Join(_, _)
Join(sep, items) ==
    IF items = <<>> THEN <<>>
    ELSE IF Len(items) = 1 THEN items[1]
    ELSE items[1] \o sep \o Join(sep, Tail(items))

----------------------------------------------------------------------------
(* The Document Index and the retriever tool (utils.py) *)

K == 3

Retrievers == {"r_empty", "r_small", "r_full"}

(* page_content of the chunks each index stores, in storage order *)
Corpus(r) ==
    CASE r = "r_empty" -> <<>>
      [] r = "r_small" -> << <<"b", "b", "b">>, <<"a", "LF", "LF", "a">> >>
      [] r = "r_full"  -> << <<"c", "c", "c", "c">>, <<"c">>,
                             <<"LF", "LF">>, <<"c", "LF", "c">> >>

(* The embedding of a text, as seen through the distance between two      *)
(* embeddings: texts of the same length embed to the same point.          *)
Embed(text) == Len(text)

Distance(u, v) == (u - v) * (u - v)

(* items with x inserted before the first item farther from qv than x *)
RECURSIVE InsertRanked(_, _, _)
InsertRanked(x, items, qv) ==
    IF items = <<>> THEN <<x>>
    ELSE IF Distance(qv, Embed(x)) < Distance(qv, Embed(Head(items)))
         THEN <<x>> \o items
         ELSE <<Head(items)>> \o InsertRanked(x, Tail(items), qv)

(* the chunks of a corpus, nearest to the query first *)
RECURSIVE Ranked(_, _)
Ranked(docs, qv) ==
    IF docs = <<>> THEN <<>>
    ELSE InsertRanked(docs[Len(docs)], Ranked(SubSeq(docs, 1, Len(docs) - 1), qv), qv)

(* vectorstore.as_retriever(search_kwargs={"k": 3}).invoke(query) *)
retriever_invoke(r, query) ==
    LET ranked == Ranked(Corpus(r), Embed(query))
    IN  SubSeq(ranked, 1, Min(K, Len(ranked)))

Separator == <<"LF", "LF">>

(* tool_func joining the chunks with a single newline *)
tool_func_single_newline(r, query) == Join(<<"LF">>, retriever_invoke(r, query))

(* tool_func answering with a notice when nothing was retrieved *)
tool_func_fallback(r, query) ==
    IF retriever_invoke(r, query) = <<>>
    THEN <<"n", "o", "n", "e">>
    ELSE Join(Separator, retriever_invoke(r, query))

(* Tool.func: "\n\n".join([doc.page_content for doc in retriever.invoke(query)]) *)
tool_func(r, query) == Join(Separator, retriever_invoke(r, query))

----------------------------------------------------------------------------
(* GraphState and the three nodes (agent.py) *)

Fields == {"question", "documents", "answer", "formatted_output"}

(* Merge of a graph that keeps only the last node's update *)
MergeReplace(s, update) == update

(* a node's partial update merged into the state: the update's keys are  *)
(* written, every other key of the state is kept                         *)
Merge(s, update) == update @@ s

(* retriever_node: reads state["question"] and the module global *)
retriever_node(s) == "documents" :> tool_func(retriever_tool, s["question"])

(* the instruction text of the system prompt, up to its {documents} slot *)
SystemText == <<"SYSTEM_PROMPT">>

(* generator_node: the messages sent to the completion *)
generator_messages(s) ==
    << [role |-> "system", content |-> SystemText \o s["documents"]],
       [role |-> "human", content |-> s["question"]] >>

(* generator_node: the answer is response.content, the completion's text *)
generator_node(s, content) == "answer" :> content

LF == <<"LF">>

BannerTop == <<"BOX_DR">> \o Rep("BOX_H", 62) \o <<"BOX_DL">>

BannerTitle ==
    <<"BOX_V">> \o Rep(" ", 20)
    \o <<"L", "A", "N", "G", "S", "M", "I", "T", "H", " ", "Q", "&", "A", " ", "A", "G", "E", "N", "T">>
    \o Rep(" ", 23) \o <<"BOX_V">>

BannerBottom == <<"BOX_UR">> \o Rep("BOX_H", 62) \o <<"BOX_UL">>

QuestionLabel == <<"MEMO", " ", "Q", "u", "e", "s", "t", "i", "o", "n", ":">>

AnswerLabel == <<"BULB", " ", "A", "n", "s", "w", "e", "r", ":">>

Rule == Rep("BOX_H", 62)

(* the f-string of formatter_node, up to and including the label line of *)
(* the question                                                          *)
TemplateHead ==
    LF \o BannerTop \o LF \o BannerTitle \o LF \o BannerBottom \o LF
    \o LF \o QuestionLabel \o LF

(* the f-string between {question} and {answer} *)
TemplateMiddle == LF \o LF \o AnswerLabel \o LF

(* the f-string after {answer} *)
TemplateTail == LF \o LF \o Rule \o LF

(* text without its leading and trailing newlines and blanks, as str.strip() *)
RECURSIVE Strip(_)
Strip(text) ==
    IF text = <<>> THEN text
    ELSE IF Head(text) \in {"LF", " "} THEN Strip(Tail(text))
    ELSE IF text[Len(text)] \in {"LF", " "} THEN Strip(SubSeq(text, 1, Len(text) - 1))
    ELSE text

(* formatter_node stripping the question and the answer before inserting them *)
formatter_node_stripped(s) ==
    "formatted_output" :>
        (TemplateHead \o Strip(s["question"]) \o TemplateMiddle
         \o Strip(s["answer"]) \o TemplateTail)

(* formatter_node returning the answer, emptied, next to the formatted output *)
formatter_node_clearing(s) ==
    ("formatted_output" :>
        (TemplateHead \o s["question"] \o TemplateMiddle \o s["answer"] \o TemplateTail))
    @@ ("answer" :> <<>>)

(* formatter_node: reads state["question"] and state["answer"] *)
formatter_node(s) ==
    "formatted_output" :>
        (TemplateHead \o s["question"] \o TemplateMiddle \o s["answer"] \o TemplateTail)

----------------------------------------------------------------------------
(* The graph of create_agent (agent.py) *)

EntryPoint == "retrieve"

(* Edge with the edge out of "format" leading back to "retrieve" *)
EdgeCycle(node) ==
    CASE node = "retrieve" -> "generate"
      [] node = "generate" -> "format"
      [] node = "format"   -> "retrieve"

(* Edge with the edge out of "generate" leading to END *)
EdgeSkipFormat(node) ==
    CASE node = "retrieve" -> "generate"
      [] node = "generate" -> "END"
      [] node = "format"   -> "END"

Edge(node) ==
    CASE node = "retrieve" -> "generate"
      [] node = "generate" -> "format"
      [] node = "format"   -> "END"

(* Raised of nodes that wrap the exception in an error of their stage *)
RaisedWrapped(exc, node) ==
    IF node = "retrieve" THEN "RetrievalError" ELSE "GenerationError"

(* No node catches an exception: the exception of a failing call leaves *)
(* the node, and the graph run, unchanged.                             *)
Raised(exc, node) == exc

(* AfterFailure of a graph that catches the exception and follows the edge *)
AfterFailureSwallow(node) ==
    CASE node = "retrieve" -> "generate"
      [] node = "generate" -> "format"
      [] node = "format"   -> "END"

(* where the run stands after a node raised *)
AfterFailure(node) == "error"

(* one chunk of the stream: the update of one node, keyed by the node's name *)
StreamChunk(node, update) == node :> update

(* Emit of a stream that emits the last node's update only *)
EmitFinalOnly(chunks, node, update) ==
    IF node = "format" THEN Append(chunks, StreamChunk(node, update)) ELSE chunks

(* the stream route emits one chunk when a node has returned *)
Emit(chunks, node, update) == Append(chunks, StreamChunk(node, update))

----------------------------------------------------------------------------
(* Inputs and outcomes of the external calls *)

Questions == { <<"a">>, <<"BOX_H", "LF", "a">> }

(* texts the completion may return *)
Answers == { <<>>, <<"b", "LF">> }

Modes == {"invoke", "stream"}

(* exceptions of the Provider's client, the same for embeddings and completions *)
ProviderFailures == {"APITimeoutError", "AuthenticationError"}

(* exceptions of the similarity search *)
SearchFailures == {"IndexSearchError"}

(* the outcomes of the calls retriever_tool.invoke makes, in order: the *)
(* embedding of the query, then the similarity search                   *)
RetrieveOutcomes ==
    { <<"ok", "ok">> }
    \cup { <<f>> : f \in ProviderFailures }
    \cup { <<"ok", f>> : f \in SearchFailures }

RetrieveCalls == <<"embed", "search">>

Last(seq) == seq[Len(seq)]

(* exceptions of load_retriever_tool: the index is missing or unreadable *)
LoadFailures == {"RuntimeError", "UnpicklingError"}

(* the service process before server.py has run load_agent *)
ServerStart ==
    [pc |-> "load_agent", loads |-> 0, load_error |-> None, agent |-> None,
     routes |-> FALSE, exit |-> <<>>, health |-> {}]

----------------------------------------------------------------------------
(* State after the modules are imported: no agent exists, nothing runs *)

Init ==
    /\ retriever_tool = None
    /\ created = {}
    /\ agent = [i \in Invocations |-> None]
    /\ mode = [i \in Invocations |-> None]
    /\ pc = [i \in Invocations |-> "idle"]
    /\ state = [i \in Invocations |-> NoState]
    /\ error = [i \in Invocations |-> None]
    /\ calls = [i \in Invocations |-> <<>>]
    /\ console = [i \in Invocations |-> <<>>]
    /\ emitted = [i \in Invocations |-> <<>>]
    /\ result = [i \in Invocations |-> NoState]
    /\ received = [i \in Invocations |-> <<>>]
    /\ client = [i \in Invocations |-> "idle"]
    /\ printed = [i \in Invocations |-> <<>>]
    /\ server = ServerStart

(* create_agent(retriever_tool_instance): sets the global, compiles a graph *)
create_agent(r) ==
    /\ retriever_tool' = r
    /\ created' = created \cup {r}

(* a call of create_agent by a program that uses agent.py *)
CreateAgent(r) ==
    /\ create_agent(r)
    /\ UNCHANGED <<agent, mode, pc, state, error, calls, console, emitted,
                   result, received, client, printed, server>>

(* agent.invoke({"question": q}) or agent.stream({"question": q}) on an *)
(* agent that create_agent(r) returned                                  *)
Invoke(i, r, q, m) ==
    /\ pc[i] = "idle"
    /\ r \in created
    /\ agent' = [agent EXCEPT ![i] = r]
    /\ mode' = [mode EXCEPT ![i] = m]
    /\ pc' = [pc EXCEPT ![i] = EntryPoint]
    /\ state' = [state EXCEPT ![i] = "question" :> q]
    /\ client' = [client EXCEPT ![i] = IF m = "stream" THEN "reading" ELSE "waiting"]
    /\ UNCHANGED <<retriever_tool, created, error, calls, console, emitted,
                   result, received, printed, server>>

(* a node returned its update: the graph merges it, emits it on a stream, *)
(* follows the node's edge, and at END agent.invoke returns the state     *)
Completed(i, node, update) ==
    /\ state' = [state EXCEPT ![i] = Merge(@, update)]
    /\ pc' = [pc EXCEPT ![i] = Edge(node)]
    /\ emitted' = [emitted EXCEPT ![i] =
                      IF mode[i] = "stream" THEN Emit(@, node, update)
                      ELSE @]
    /\ result' = [result EXCEPT ![i] =
                      IF mode[i] = "invoke" /\ Edge(node) = "END"
                      THEN Merge(state[i], update) ELSE @]
    /\ UNCHANGED <<error, client>>

(* a node raised: the run ends, agent.invoke raises to its caller *)
Failed(i, node, exc) ==
    /\ pc' = [pc EXCEPT ![i] = AfterFailure(node)]
    /\ error' = [error EXCEPT ![i] =
                    IF AfterFailure(node) = "error" THEN Raised(exc, node) ELSE @]
    /\ client' = [client EXCEPT ![i] =
                    IF mode[i] = "invoke" /\ AfterFailure(node) = "error"
                    THEN "raised" ELSE @]
    /\ UNCHANGED <<state, emitted, result>>

Retrieve(i) ==
    /\ pc[i] = "retrieve"
    /\ \E out \in RetrieveOutcomes :
         /\ calls' = [calls EXCEPT ![i] = @ \o
                [k \in 1..Len(out) |->
                    [call |-> RetrieveCalls[k], via |-> retriever_tool,
                     input |-> state[i]["question"], outcome |-> out[k]]]]
         /\ console' = [console EXCEPT ![i] = Append(@, "retrieve")]
         /\ IF Last(out) = "ok"
            THEN Completed(i, "retrieve", retriever_node(state[i]))
            ELSE Failed(i, "retrieve", Last(out))
    /\ UNCHANGED <<retriever_tool, created, agent, mode, received, printed, server>>

Generate(i) ==
    /\ pc[i] = "generate"
    /\ \E out \in {"ok"} \cup ProviderFailures :
         /\ calls' = [calls EXCEPT ![i] =
                Append(@, [call |-> "complete", via |-> "llm",
                           input |-> generator_messages(state[i]),
                           outcome |-> out])]
         /\ console' = [console EXCEPT ![i] = Append(@, "generate")]
         /\ IF out = "ok"
            THEN \E content \in Answers :
                    Completed(i, "generate", generator_node(state[i], content))
            ELSE Failed(i, "generate", out)
    /\ UNCHANGED <<retriever_tool, created, agent, mode, received, printed, server>>

Format(i) ==
    /\ pc[i] = "format"
    /\ Completed(i, "format", formatter_node(state[i]))
    /\ console' = [console EXCEPT ![i] = Append(@, "format")]
    /\ UNCHANGED <<retriever_tool, created, agent, mode, calls, received, printed,
                   server>>

(* test_client.py:30-33: result = agent.invoke(...); print(result["formatted_output"]) *)
ClientPrint(i) ==
    /\ mode[i] = "invoke"
    /\ client[i] = "waiting"
    /\ pc[i] = "END"
    /\ printed' = [printed EXCEPT ![i] = Append(@, result[i]["formatted_output"])]
    /\ client' = [client EXCEPT ![i] = "done"]
    /\ UNCHANGED <<retriever_tool, created, agent, mode, pc, state, error, calls,
                   console, emitted, result, received, server>>

(* test_client.py:46-49: one turn of  for chunk in agent.stream(...) *)
ClientRead(i) ==
    /\ mode[i] = "stream"
    /\ client[i] = "reading"
    /\ IF Len(received[i]) < Len(emitted[i])
       THEN LET chunk == emitted[i][Len(received[i]) + 1]
            IN  /\ received' = [received EXCEPT ![i] = Append(@, chunk)]
                /\ IF "formatted_output" \in DOMAIN chunk
                   THEN /\ printed' = [printed EXCEPT ![i] =
                                          Append(@, chunk["formatted_output"])]
                        /\ client' = [client EXCEPT ![i] = "done"]
                   ELSE UNCHANGED <<printed, client>>
       ELSE /\ pc[i] \in {"END", "error"}
            /\ client' = [client EXCEPT ![i] =
                             IF pc[i] = "END" THEN "done" ELSE "raised"]
            /\ UNCHANGED <<received, printed>>
    /\ UNCHANGED <<retriever_tool, created, agent, mode, pc, state, error, calls,
                   console, emitted, result, server>>

(* one client call, as test_client.py makes them: one at a time *)
Next ==
    \/ \E r \in Retrievers : CreateAgent(r)
    \/ \E r \in Retrievers, q \in Questions, m \in Modes : Invoke("i1", r, q, m)
    \/ Retrieve("i1")
    \/ Generate("i1")
    \/ Format("i1")
    \/ ClientPrint("i1")
    \/ ClientRead("i1")

Spec == Init /\ [][Next]_vars

(* two invoke calls in flight at once, as two clients of the service make them *)
NextConcurrent ==
    \/ \E r \in Retrievers : CreateAgent(r)
    \/ \E i \in Invocations, r \in Retrievers, q \in Questions :
          Invoke(i, r, q, "invoke")
    \/ \E i \in Invocations : Retrieve(i)
    \/ \E i \in Invocations : Generate(i)
    \/ \E i \in Invocations : Format(i)
    \/ \E i \in Invocations : ClientPrint(i)

SpecConcurrent == Init /\ [][NextConcurrent]_vars

----------------------------------------------------------------------------
(* The service process (server.py) *)

(* AfterLoadFailure of an except clause that reports the error and goes on *)
AfterLoadFailureContinue == "add_routes"

(* load_agent's except clause: exit(1) *)
AfterLoadFailure == "exited"

(* agent = load_agent(): load the index, then create the agent *)
LoadAgent ==
    /\ server.pc = "load_agent"
    /\ \E out \in {"ok"} \cup LoadFailures :
         IF out = "ok"
         THEN \E r \in Retrievers :
                 /\ create_agent(r)
                 /\ server' = [server EXCEPT !.loads = @ + 1, !.agent = r,
                                             !.pc = "add_routes"]
         ELSE /\ server' = [server EXCEPT
                    !.loads = @ + 1,
                    !.load_error = out,
                    !.pc = AfterLoadFailure,
                    !.exit = IF AfterLoadFailure = "exited" THEN <<1>> ELSE @]
              /\ UNCHANGED <<retriever_tool, created>>
    /\ UNCHANGED <<agent, mode, pc, state, error, calls, console, emitted,
                   result, received, client, printed>>

(* add_routes(app, agent, path="/agent") and the two health routes *)
AddRoutes ==
    /\ server.pc = "add_routes"
    /\ server' = [server EXCEPT !.routes = TRUE, !.pc = "main"]
    /\ UNCHANGED <<retriever_tool, created, agent, mode, pc, state, error, calls,
                   console, emitted, result, received, client, printed>>

(* if __name__ == "__main__": exit(1) without X_API_KEY, else uvicorn.run *)
Main ==
    /\ server.pc = "main"
    /\ \E x_api_key \in BOOLEAN :
         server' = IF x_api_key
                   THEN [server EXCEPT !.pc = "serving"]
                   ELSE [server EXCEPT !.pc = "exited", !.exit = <<1>>]
    /\ UNCHANGED <<retriever_tool, created, agent, mode, pc, state, error, calls,
                   console, emitted, result, received, client, printed>>

(* GET /health *)
Health ==
    /\ server.pc = "serving"
    /\ server.routes
    /\ \E tracing \in BOOLEAN :
         server' = [server EXCEPT !.health = @ \cup
                       { [status |-> "healthy", faiss_index |-> "loaded",
                          agent |-> "ready", langsmith_tracing |-> tracing] }]
    /\ UNCHANGED <<retriever_tool, created, agent, mode, pc, state, error, calls,
                   console, emitted, result, received, client, printed>>

(* POST /agent/invoke or /agent/stream: the routes run the server's agent *)
ServeQuery(i, q, m) ==
    /\ server.pc = "serving"
    /\ server.routes
    /\ Invoke(i, server.agent, q, m)

NextServer ==
    \/ LoadAgent
    \/ AddRoutes
    \/ Main
    \/ Health
    \/ \E q \in Questions, m \in Modes : ServeQuery("i1", q, m)
    \/ Retrieve("i1")
    \/ Generate("i1")
    \/ Format("i1")
    \/ ClientPrint("i1")
    \/ ClientRead("i1")

SpecServer == Init /\ [][NextServer]_vars

----------------------------------------------------------------------------
(* The formatting stage on every question and answer up to MaxLen characters *)

MaxLen == 2

Alphabet == {"a", "LF", "BOX_H", "BULB"}

RECURSIVE Strings(_)
Strings(n) ==
    IF n = 0 THEN { <<>> }
    ELSE Strings(n - 1) \cup
         { Append(t, c) : t \in { u \in Strings(n - 1) : Len(u) = n - 1 }, c \in Alphabet }

(* an invoke call that has run retrieve and generate and stands before format *)
InitFormat ==
    /\ retriever_tool \in Retrievers
    /\ created = {retriever_tool}
    /\ \E q \in Strings(MaxLen) \ { <<>> }, a \in Strings(MaxLen) :
         /\ state = [i \in Invocations |->
                IF i = "i1"
                THEN Merge(Merge("question" :> q,
                                 "documents" :> tool_func(retriever_tool, q)),
                           generator_node("question" :> q, a))
                ELSE NoState]
    /\ agent = [i \in Invocations |-> IF i = "i1" THEN retriever_tool ELSE None]
    /\ mode = [i \in Invocations |-> IF i = "i1" THEN "invoke" ELSE None]
    /\ pc = [i \in Invocations |-> IF i = "i1" THEN "format" ELSE "idle"]
    /\ error = [i \in Invocations |-> None]
    /\ calls = [i \in Invocations |->
            IF i = "i1"
            THEN << [call |-> "embed", via |-> retriever_tool,
                     input |-> state[i]["question"], outcome |-> "ok"],
                    [call |-> "search", via |-> retriever_tool,
                     input |-> state[i]["question"], outcome |-> "ok"],
                    [call |-> "complete", via |-> "llm",
                     input |-> generator_messages(state[i]), outcome |-> "ok"] >>
            ELSE <<>>]
    /\ console = [i \in Invocations |->
            IF i = "i1" THEN <<"retrieve", "generate">> ELSE <<>>]
    /\ emitted = [i \in Invocations |-> <<>>]
    /\ result = [i \in Invocations |-> NoState]
    /\ received = [i \in Invocations |-> <<>>]
    /\ client = [i \in Invocations |-> IF i = "i1" THEN "waiting" ELSE "idle"]
    /\ printed = [i \in Invocations |-> <<>>]
    /\ server = ServerStart

NextFormat == Format("i1") \/ ClientPrint("i1")

SpecFormat == InitFormat /\ [][NextFormat]_vars

----------------------------------------------------------------------------
(* Properties *)

Nodes == <<"retrieve", "generate", "format">>

IsPrefix(a, b) == Len(a) <= Len(b) /\ SubSeq(b, 1, Len(a)) = a

Has(i, field) == field \in DOMAIN state[i]

(* agent.invoke has returned a state to its caller *)
Returned(i) == DOMAIN result[i] # {}

(* the calls of invocation i that failed *)
FailedCalls(i) == { k \in 1..Len(calls[i]) : calls[i][k].outcome # "ok" }

(* C1: in every invocation the stages start in the order retrieve,        *)
(* generate, format, none twice; generate starts only after retrieve has  *)
(* returned documents, format only after generate has returned an answer; *)
(* an invocation that reached END has run all three.                      *)
C1_StageOrder ==
    \A i \in Invocations :
       /\ IsPrefix(console[i], Nodes)
       /\ Len(console[i]) >= 2 => Has(i, "documents")
       /\ Len(console[i]) >= 3 => Has(i, "answer")
       /\ pc[i] = "END" => console[i] = Nodes /\ Has(i, "formatted_output")
       /\ pc[i] \in {"retrieve", "generate", "format"} =>
             /\ Len(console[i]) < Len(Nodes)
             /\ pc[i] = Nodes[Len(console[i]) + 1]
             /\ error[i] = None

C1_Witness ==
    \E i \in Invocations :
       pc[i] = "END" /\ console[i] = Nodes /\ Len(calls[i]) = 3

(* C2: agent.invoke either returns a state with all four fields or raises: *)
(* a returned state never lacks a field, and a call never both returns and *)
(* raises.                                                                 *)
C2_AllFieldsOrError ==
    \A i \in Invocations :
       mode[i] = "invoke" =>
          /\ Returned(i) =>
                /\ DOMAIN result[i] = Fields
                /\ result[i]["question"] # <<>>
                /\ error[i] = None
                /\ client[i] # "raised"
          /\ pc[i] = "END" => Returned(i)
          /\ pc[i] = "error" =>
                ~Returned(i) /\ error[i] # None /\ client[i] = "raised"
          /\ client[i] = "done" => Returned(i)

C2_Witness ==
    /\ \E i \in Invocations :
          mode[i] = "invoke" /\ Returned(i) /\ DOMAIN result[i] = Fields
    /\ \E i \in Invocations :
          mode[i] = "invoke" /\ pc[i] = "error" /\ ~Returned(i)

(* some chunk of the sequence carries a formatted_output, under a node's *)
(* name or at the top                                                    *)
CarriesOutput(chunk) ==
    \/ "formatted_output" \in DOMAIN chunk
    \/ \E n \in DOMAIN chunk : "formatted_output" \in DOMAIN chunk[n]

(* C3: when a call of the retrieval or generation stage has failed, no     *)
(* later stage has run (the failing call is the invocation's last, the     *)
(* failing node the last that started), the failure has reached or will    *)
(* reach the caller (the run stands at "error" with the exception, an      *)
(* invoke call has raised, a streaming client is not done), and no         *)
(* formatted_output exists in the state, the result, the stream or the     *)
(* client's output.                                                        *)
C3_FailureAborts ==
    \A i \in Invocations :
       FailedCalls(i) # {} =>
          /\ FailedCalls(i) = {Len(calls[i])}
          /\ console[i] =
                IF Last(calls[i]).call = "complete"
                THEN <<"retrieve", "generate">> ELSE <<"retrieve">>
          /\ pc[i] = "error"
          /\ error[i] # None
          /\ mode[i] = "invoke" => client[i] = "raised"
          /\ mode[i] = "stream" => client[i] \in {"reading", "raised"}
          /\ ~Has(i, "formatted_output")
          /\ ~Returned(i)
          /\ \A k \in 1..Len(emitted[i]) : ~CarriesOutput(emitted[i][k])
          /\ \A k \in 1..Len(received[i]) : ~CarriesOutput(received[i][k])
          /\ printed[i] = <<>>

C3_Witness ==
    \E i \in Invocations :
       /\ mode[i] = "stream"
       /\ console[i] = <<"retrieve", "generate">>
       /\ FailedCalls(i) # {}
       /\ Len(received[i]) = 1
       /\ client[i] = "raised"

(* the stage a call belongs to *)
StageOf(call) == IF call = "complete" THEN "generate" ELSE "retrieve"

FieldOrder == <<"question", "documents", "answer", "formatted_output">>

(* the dict holds a field only together with every earlier field *)
Monotone(dict) ==
    \A k \in 2..Len(FieldOrder) :
       FieldOrder[k] \in DOMAIN dict => FieldOrder[k - 1] \in DOMAIN dict

(* C5: in every state of an invocation, and in the state it returns, a    *)
(* field is present only if every earlier field of question, documents,   *)
(* answer, formatted_output is present; no other key is present; a        *)
(* started invocation holds its question.                                 *)
C5_PresenceMonotone ==
    \A i \in Invocations :
       /\ DOMAIN state[i] \subseteq Fields
       /\ Monotone(state[i])
       /\ Monotone(result[i])
       /\ pc[i] # "idle" => Has(i, "question")

C5_Witness ==
    \E i, j \in Invocations :
       /\ DOMAIN state[i] = {"question", "documents", "answer"}
       /\ DOMAIN state[j] = {"question", "documents"}

(* C6, as claimed: the documents of an invocation are those of the         *)
(* retriever its agent was created with, for its own question, whatever    *)
(* else runs or is created meanwhile.                                      *)
C6_Independent ==
    \A i \in Invocations :
       Has(i, "documents") =>
          state[i]["documents"] = tool_func(agent[i], state[i]["question"])

(* the text holds the piece at position p *)
HasAt(text, p, piece) ==
    /\ p >= 1
    /\ p + Len(piece) - 1 <= Len(text)
    /\ SubSeq(text, p, p + Len(piece) - 1) = piece

Contains(text, piece) == \E p \in 1..(Len(text) + 1) : HasAt(text, p, piece)

(* the text is the chunks in their order with exactly two newlines between *)
(* consecutive chunks, and nothing else                                    *)
RECURSIVE IsJoined(_, _)
IsJoined(text, chunks) ==
    IF chunks = <<>> THEN text = <<>>
    ELSE IF Len(chunks) = 1 THEN text = chunks[1]
    ELSE LET n == Len(chunks[1])
         IN  /\ HasAt(text, 1, chunks[1])
             /\ HasAt(text, n + 1, <<"LF", "LF">>)
             /\ IsJoined(SubSeq(text, n + 3, Len(text)), Tail(chunks))

(* no chunk of the sequence is farther from the query than a later one *)
NearestFirst(chunks, query) ==
    \A a, b \in 1..Len(chunks) :
       a < b => Distance(Embed(query), Embed(chunks[a]))
                   <= Distance(Embed(query), Embed(chunks[b]))

(* the index the retrieval stage of invocation i searched *)
Searched(i) == calls[i][2].via

(* C7: the documents of an invocation are the first min(3, n) of the n     *)
(* chunks of the searched index, taken nearest first, joined by exactly    *)
(* two newlines between consecutive chunks; they are the empty string when *)
(* the index has no chunk.                                                 *)
C7_Documents ==
    \A i \in Invocations :
       Has(i, "documents") =>
          LET query   == state[i]["question"]
              matches == Ranked(Corpus(Searched(i)), Embed(query))
              n       == IF Len(matches) < 3 THEN Len(matches) ELSE 3
          IN  /\ Len(matches) = Len(Corpus(Searched(i)))
              /\ NearestFirst(matches, query)
              /\ IsJoined(state[i]["documents"], SubSeq(matches, 1, n))
              /\ Len(matches) = 0 => state[i]["documents"] = <<>>

(* documents of three chunks out of four, and their order depends on the query *)
C7_Witness ==
    \E i \in Invocations :
       /\ Has(i, "documents")
       /\ Len(Corpus(Searched(i))) = 4
       /\ Len(state[i]["documents"]) = 13
       /\ HasAt(state[i]["documents"], 1, <<"c", "LF", "c">>)

(* the similarity search of invocation i succeeded and matched nothing *)
ZeroMatches(i) ==
    /\ Len(calls[i]) >= 2
    /\ calls[i][2].outcome = "ok"
    /\ Corpus(Searched(i)) = <<>>

(* C8: when the index returns zero matches, documents is the empty string; *)
(* the generation stage calls the completion with the empty documents, and *)
(* the invocation fails only if that call itself fails at the Provider;    *)
(* when the completion answers, the stage completes, and the formatted     *)
(* output holds the question verbatim.                                     *)
C8_EmptyEvidence ==
    \A i \in Invocations :
       ZeroMatches(i) =>
          /\ Has(i, "documents") /\ state[i]["documents"] = <<>>
          /\ pc[i] # "generate" =>
                /\ Len(calls[i]) = 3
                /\ calls[i][3].call = "complete"
                /\ calls[i][3].input[1].content = SystemText
                /\ calls[i][3].input[2].content = state[i]["question"]
          /\ pc[i] = "error" => calls[i][3].outcome \in ProviderFailures
          /\ (Len(calls[i]) = 3 /\ calls[i][3].outcome = "ok") =>
                /\ pc[i] \in {"format", "END"}
                /\ Has(i, "answer")
          /\ pc[i] = "END" =>
                Contains(state[i]["formatted_output"], state[i]["question"])

C8_Witness ==
    \E i \in Invocations :
       /\ ZeroMatches(i)
       /\ state[i]["question"] = <<"BOX_H", "LF", "a">>
       /\ pc[i] = "END"
       /\ Contains(state[i]["formatted_output"], state[i]["question"])

(* what the formatting stage made of the state before it ran *)
Formatted(before, after) ==
    LET out      == after["formatted_output"]
        question == QuestionLabel \o LF \o before["question"] \o LF
        answer   == AnswerLabel \o LF \o before["answer"] \o LF
    IN  /\ DOMAIN after = DOMAIN before \cup {"formatted_output"}
        /\ \A f \in DOMAIN before : after[f] = before[f]
        /\ \E p \in 1..Len(out) :
              /\ HasAt(out, p, question)
              /\ \E p2 \in (p + Len(question))..Len(out) : HasAt(out, p2, answer)

(* C9: a step of the formatting stage leaves question, documents and       *)
(* answer as they were and adds a formatted_output that holds the labeled  *)
(* question section with the question verbatim and, after it, the labeled  *)
(* answer section with the answer verbatim, whatever characters the two    *)
(* strings are made of.                                                    *)
C9_Fidelity ==
    [][\A i \in Invocations :
          (pc[i] = "format" /\ pc'[i] # "format") => Formatted(state[i], state'[i])]_vars

(* a question and an answer made of the template's delimiters, formatted *)
C9_Witness ==
    \E i \in Invocations :
       /\ Has(i, "formatted_output")
       /\ state[i]["question"] = <<"LF", "BULB">>
       /\ state[i]["answer"] = <<"BOX_H", "LF">>

FieldOf(node) ==
    CASE node = "retrieve" -> "documents"
      [] node = "generate" -> "answer"
      [] node = "format"   -> "formatted_output"

(* the stages of invocation i that have completed *)
CompletedStages(i) ==
    CASE pc[i] = "generate" -> 1
      [] pc[i] = "format"   -> 2
      [] pc[i] = "END"      -> 3
      [] pc[i] = "error"    -> Len(console[i]) - 1
      [] OTHER              -> 0

(* the chunk carries this one field with this value, and nothing else *)
CarriesUpdate(chunk, field, value) ==
    \/ chunk = (field :> value)
    \/ \E n \in DOMAIN chunk : DOMAIN chunk = {n} /\ chunk[n] = (field :> value)

Writes(i) ==
    IF pc[i] \in {"retrieve", "generate", "format"} THEN {FieldOf(pc[i])} ELSE {}

(* C11: no step changes or removes a field a started invocation already   *)
(* holds, the question included, and a step of the retrieve node adds      *)
(* documents at most, of the generate node answer at most, of the format   *)
(* node formatted_output at most; no other step adds a field.              *)
C11_Additive ==
    [][\A i \in Invocations :
          pc[i] # "idle" =>
             /\ \A f \in DOMAIN state[i] :
                   f \in DOMAIN state'[i] /\ state'[i][f] = state[i][f]
             /\ (DOMAIN state'[i] \ DOMAIN state[i]) \subseteq Writes(i)]_vars

(* all three stages have written, next to the question sent to the embedding *)
C11_Witness ==
    \E i \in Invocations :
       /\ pc[i] = "END"
       /\ DOMAIN state[i] = Fields
       /\ state[i]["question"] = calls[i][1].input
       /\ state[i]["answer"] = <<"b", "LF">>
       /\ state[i]["documents"] # <<>>

(* C12: in a process whose index load failed, the load was tried once, the *)
(* process has exited with status 1, no agent was created (the global is   *)
(* unset), no route is registered, no query has started and no health      *)
(* check has answered.                                                     *)
C12_FatalLoadFailure ==
    server.load_error # None =>
       /\ server.loads = 1
       /\ server.pc = "exited"
       /\ server.exit = <<1>>
       /\ server.agent = None
       /\ created = {}
       /\ retriever_tool = None
       /\ ~server.routes
       /\ \A i \in Invocations : pc[i] = "idle" /\ calls[i] = <<>>
       /\ server.health = {}

C12_Witness ==
    /\ server.load_error = "RuntimeError"
    /\ server.loads = 1
    /\ server.pc = "exited"
    /\ server.exit = <<1>>

====
